---- MODULE Spec2Model ----
(***************************************************************************)
(* Model of the dating-app backend: the match engine (LikeUser, Unmatch,   *)
(* BlockUser, UnblockUser over the relational store) and the WebSocket hub *)
(* (Hub.Run, BroadcastToConversation, the sessions' read and write pumps,  *)
(* and SendMessage, the REST handler that fans a chat message out).        *)
(*                                                                         *)
(* Every request handler runs on its own goroutine and issues its store    *)
(* statements one at a time with no transaction around them, so a handler  *)
(* is a process and each store statement is one atomic step.               *)
(***************************************************************************)
EXTENDS Naturals, Sequences, FiniteSets

VARIABLES
    likes,          \* table likes: (liker_id, liked_id) |-> number of rows
    matches,        \* table matches: row id |-> [user1, user2, isActive]
    conversations,  \* table conversations: row id |-> [matchID, isActive]
    notifications,  \* table notifications: row id |-> [userID, type, data]
    blocks,         \* table blocked_users: set of (blocker_id, blocked_id)
    dislikes,       \* Dislike rows: the number of rows per (disliker, disliked)
    messages,       \* table messages: row id |-> [conversationID, senderID]
    hpc,            \* per handler goroutine: the statement it is about to run
    hreq,           \* per handler goroutine: the request, its locals, its response
    clients,        \* Hub.clients: the sessions in the map
    registering,    \* the client Run has received from register, or 0
    rpc,            \* per session: where its readPump goroutine stands
    wpc,            \* per session: where its writePump goroutine stands
    send,           \* per session: the frames buffered in Client.send
    closed,         \* per session: Client.send has been closed
    conversationID, \* per session: Client.conversationID as its readPump wrote it
    hist,           \* per session: the frames ever accepted by Client.send
    bad,            \* the sessions that have been sent a frame that is not JSON
    unauth,         \* the connections whose upgrade request had no valid token
    iter,           \* per goroutine: its range over Hub.clients in a broadcast
    calls,          \* the broadcast calls in the order they were issued
    crashed,        \* the process has died (unrecovered panic, runtime throw)
    panics,         \* some goroutine has panicked
    raced           \* Hub.clients was written while another goroutine ranged over it

dbVars == <<likes, matches, conversations, notifications, blocks, dislikes>>
reqVars == <<hpc, hreq>>
sessVars == <<rpc, wpc, send, closed, conversationID, hist, bad, unauth>>
hubVars == <<clients, registering, sessVars, iter, calls, crashed, panics, raced>>
vars == <<dbVars, messages, reqVars, hubVars>>

----------------------------------------------------------------------------
(* Bounds of the model. *)

NumUsers == 3       \* registered, active users 1..NumUsers
NumHandlers == 2    \* request goroutines that may run at the same time
NumRacers == 2      \* users whose requests the concurrent specification draws
MaxLikes == 2       \* a like that may add a row is admitted while fewer Like rows exist
MaxBlocks == 1      \* block requests are admitted while fewer block rows exist
MaxDislikes == 2    \* dislike requests of new pairs are admitted while fewer Dislike rows exist
NumClients == 2     \* WebSocket sessions opened over a run
SendCap == 1        \* capacity of Client.send (256 in the program)
MaxConv == 2        \* conversation ids 1..MaxConv appear in frames and requests
MaxCalls == 2       \* broadcasts admitted in a run of the hub with all its sessions
NumSenders == 1     \* the users 1..NumSenders send messages
NumSolo == 1        \* sessions opened in a run of the hub with overlapping broadcasts
MaxOverlap == 3     \* broadcasts admitted in such a run

Users == 1..NumUsers
NoUser == 0         \* an id no row of users carries
Racers == 1..NumRacers
Handlers == 1..NumHandlers
Pairs == Users \X Users
DislikePairs == Users \X (Users \cup {NoUser})
Clients == 1..NumClients
ConvIds == 1..MaxConv
NoConv == 0
Solo == 1..NumSolo
Senders == 1..NumSenders

----------------------------------------------------------------------------
(* The store's queries. *)

RECURSIVE SumOver(_, _)
SumOver(f, S) ==
    IF S = {} THEN 0
    ELSE LET x == CHOOSE y \in S : TRUE IN f[x] + SumOver(f, S \ {x})

LikeRows == SumOver(likes, Pairs)

\* h.db.Where("id = ? AND is_active = ?", likedID, true).First(&likedUser)
UserIsActive(id) == id \in Users

\* h.db.Where("liker_id = ? AND liked_id = ?", a, b).First(&like): err == nil
LikeExists(a, b) == <<a, b>> \in Pairs /\ likes[<<a, b>>] > 0

\* h.db.Where("blocker_id = ? AND blocked_id = ?", a, b).First(&blocked): err == nil
IsBlocked(a, b) == <<a, b>> \in blocks

\* h.db.Where("disliker_id = ? AND disliked_id = ?", a, b).First(&existingDislike): err == nil
DislikeExists(a, b) == <<a, b>> \in DislikePairs /\ dislikes[<<a, b>>] > 0

DislikeRows == SumOver(dislikes, DislikePairs)

MatchIds == 1..Len(matches)
ConversationIds == 1..Len(conversations)

IsParticipant(u, m) == matches[m].user1 = u \/ matches[m].user2 = u

\* Where("id = ? AND (user1_id = ? OR user2_id = ?) AND is_active = ?", ...)
ActiveMatchOf(u, m) ==
    m \in MatchIds /\ IsParticipant(u, m) /\ matches[m].isActive

\* Where("match_id = ?", matchID).First(&conversation): the lowest id, or 0
FirstConversationOf(m) ==
    LET S == {c \in ConversationIds : conversations[c].matchID = m}
    IN IF S = {} THEN 0 ELSE CHOOSE c \in S : \A d \in S : c <= d

MatchesOfPair(a, b) ==
    {m \in MatchIds : {matches[m].user1, matches[m].user2} = {a, b}}

ConversationsOf(m) == {c \in ConversationIds : conversations[c].matchID = m}

----------------------------------------------------------------------------
(* Handlers.  hreq[h] holds the request (op, user, arg), the handler's     *)
(* locals (mid: match.ID), its response (code) and, for the properties,    *)
(* history fields: pre (when the request arrived, the Like user->arg       *)
(* existed, or arg was an active match of user, or the Dislike user->arg   *)
(* existed), wrote (the request has    *)
(* written to the store) and full (the sessions whose queue the request's  *)
(* broadcast found full).                                                  *)

NoReq == [op |-> "none", user |-> 0, arg |-> 0, mid |-> 0, code |-> 0,
          pre |-> FALSE, wrote |-> FALSE, full |-> {}]

NewReq(op, u, a) ==
    [op |-> op, user |-> u, arg |-> a, mid |-> 0, code |-> 0,
     pre |-> IF op = "like" THEN LikeExists(u, a)
             ELSE IF op = "unmatch" THEN ActiveMatchOf(u, a)
             ELSE IF op = "dislike" THEN DislikeExists(u, a) ELSE FALSE,
     wrote |-> FALSE, full |-> {}]

Goto(h, label) == hpc' = [hpc EXCEPT ![h] = label]

Respond(h, status) ==
    /\ hpc' = [hpc EXCEPT ![h] = "done"]
    /\ hreq' = [hreq EXCEPT ![h].code = status]

\* the response after a statement that wrote to the store
RespondWritten(h, status) ==
    /\ hpc' = [hpc EXCEPT ![h] = "done"]
    /\ hreq' = [hreq EXCEPT ![h].code = status, ![h].wrote = TRUE]

\* c.JSON has been written: the goroutine is free for the next request
Return(h) ==
    /\ hpc[h] = "done"
    /\ hpc' = [hpc EXCEPT ![h] = "idle"]
    /\ hreq' = [hreq EXCEPT ![h] = NoReq]
    /\ UNCHANGED dbVars
    /\ UNCHANGED <<messages, hubVars>>

(* ---- MatchHandler.LikeUser ---- *)

StartLike(h, u, t) ==
    /\ hpc[h] = "idle"
    /\ LikeRows < MaxLikes \/ LikeExists(u, t)
    /\ hreq' = [hreq EXCEPT ![h] = NewReq("like", u, t)]
    /\ Goto(h, "like_user")
    /\ UNCHANGED dbVars
    /\ UNCHANGED <<messages, hubVars>>

LikeCheckUser(h) ==
    /\ hpc[h] = "like_user"
    /\ IF UserIsActive(hreq[h].arg)
         THEN Goto(h, "like_existing") /\ UNCHANGED hreq
         ELSE Respond(h, 404)
    /\ UNCHANGED dbVars
    /\ UNCHANGED <<messages, hubVars>>

\* variant: the "already liked" query is left out
LikeCheckExisting_Skipped(h) ==
    /\ hpc[h] = "like_existing"
    /\ Goto(h, "like_blocked")
    /\ UNCHANGED hreq
    /\ UNCHANGED dbVars
    /\ UNCHANGED <<messages, hubVars>>

LikeCheckExisting(h) ==
    /\ hpc[h] = "like_existing"
    /\ IF LikeExists(hreq[h].user, hreq[h].arg)
         THEN Respond(h, 409)
         ELSE Goto(h, "like_blocked") /\ UNCHANGED hreq
    /\ UNCHANGED dbVars
    /\ UNCHANGED <<messages, hubVars>>

\* variant: a block in either direction forbids the like
LikeCheckBlocked_BothWays(h) ==
    /\ hpc[h] = "like_blocked"
    /\ IF IsBlocked(hreq[h].user, hreq[h].arg) \/ IsBlocked(hreq[h].arg, hreq[h].user)
         THEN Respond(h, 403)
         ELSE Goto(h, "like_create") /\ UNCHANGED hreq
    /\ UNCHANGED dbVars
    /\ UNCHANGED <<messages, hubVars>>

LikeCheckBlocked(h) ==
    /\ hpc[h] = "like_blocked"
    /\ IF IsBlocked(hreq[h].user, hreq[h].arg)
         THEN Respond(h, 403)
         ELSE Goto(h, "like_create") /\ UNCHANGED hreq
    /\ UNCHANGED dbVars
    /\ UNCHANGED <<messages, hubVars>>

LikeCreate(h) ==
    /\ hpc[h] = "like_create"
    /\ likes' = [likes EXCEPT ![<<hreq[h].user, hreq[h].arg>>] = @ + 1]
    /\ hreq' = [hreq EXCEPT ![h].wrote = TRUE]
    /\ Goto(h, "like_mutual")
    /\ UNCHANGED <<matches, conversations, notifications, blocks, dislikes>>
    /\ UNCHANGED <<messages, hubVars>>

LikeCheckMutual(h) ==
    /\ hpc[h] = "like_mutual"
    /\ IF LikeExists(hreq[h].arg, hreq[h].user)
         THEN Goto(h, "like_match") /\ UNCHANGED hreq
         ELSE Respond(h, 200)
    /\ UNCHANGED dbVars
    /\ UNCHANGED <<messages, hubVars>>

\* variant: the match is attributed to the earlier liker
NewMatch_Swapped(liker, liked) == [user1 |-> liked, user2 |-> liker, isActive |-> TRUE]

\* variant: the liker's id is stored in both columns
NewMatch_LikerTwice(liker, liked) == [user1 |-> liker, user2 |-> liker, isActive |-> TRUE]

NewMatch(liker, liked) == [user1 |-> liker, user2 |-> liked, isActive |-> TRUE]

LikeCreateMatch(h) ==
    /\ hpc[h] = "like_match"
    /\ matches' = Append(matches, NewMatch(hreq[h].user, hreq[h].arg))
    /\ hreq' = [hreq EXCEPT ![h].mid = Len(matches) + 1, ![h].wrote = TRUE]
    /\ Goto(h, "like_conversation")
    /\ UNCHANGED <<likes, conversations, notifications, blocks, dislikes>>
    /\ UNCHANGED <<messages, hubVars>>

\* variant: the Like is deleted again when the Match cannot be created
LikeCreateMatchFails_RollsBack(h) ==
    /\ hpc[h] = "like_match"
    /\ likes' = [likes EXCEPT ![<<hreq[h].user, hreq[h].arg>>] = @ - 1]
    /\ Respond(h, 500)
    /\ UNCHANGED <<matches, conversations, notifications, blocks, dislikes>>
    /\ UNCHANGED <<messages, hubVars>>

\* h.db.Create(&match) returns an error: 500, and the handler returns
LikeCreateMatchFails(h) ==
    /\ hpc[h] = "like_match"
    /\ Respond(h, 500)
    /\ UNCHANGED dbVars
    /\ UNCHANGED <<messages, hubVars>>

NewConversation(m) == [matchID |-> m, isActive |-> TRUE]

\* h.db.Create(&conversation) returns an error: 500, and the handler returns
LikeCreateConversationFails(h) ==
    /\ hpc[h] = "like_conversation"
    /\ Respond(h, 500)
    /\ UNCHANGED dbVars
    /\ UNCHANGED <<messages, hubVars>>

LikeCreateConversation(h) ==
    /\ hpc[h] = "like_conversation"
    /\ conversations' = Append(conversations, NewConversation(hreq[h].mid))
    /\ hreq' = [hreq EXCEPT ![h].wrote = TRUE]
    /\ Goto(h, "like_notify")
    /\ UNCHANGED <<likes, matches, notifications, blocks, dislikes>>
    /\ UNCHANGED <<messages, hubVars>>

MatchNotification(u, m) == [userID |-> u, type |-> "match", data |-> m]

\* createMatchNotification for the liker, then for the liked; then 201
LikeNotify(h) ==
    /\ hpc[h] = "like_notify"
    /\ notifications' = notifications \o
          << MatchNotification(hreq[h].user, hreq[h].mid),
             MatchNotification(hreq[h].arg, hreq[h].mid) >>
    /\ RespondWritten(h, 201)
    /\ UNCHANGED <<likes, matches, conversations, blocks, dislikes>>
    /\ UNCHANGED <<messages, hubVars>>

(* ---- MatchHandler.DislikeUser ---- *)

\* the id in the path is any number: no row of users is looked up
StartDislike(h, u, t) ==
    /\ hpc[h] = "idle"
    /\ DislikeRows < MaxDislikes \/ DislikeExists(u, t)
    /\ hreq' = [hreq EXCEPT ![h] = NewReq("dislike", u, t)]
    /\ Goto(h, "dislike_existing")
    /\ UNCHANGED dbVars
    /\ UNCHANGED <<messages, hubVars>>

\* variant: a disliker who blocked the other user is refused, as in LikeUser
DislikeCheckExisting_Blocked(h) ==
    /\ hpc[h] = "dislike_existing"
    /\ IF DislikeExists(hreq[h].user, hreq[h].arg)
         THEN Respond(h, 409)
         ELSE IF IsBlocked(hreq[h].user, hreq[h].arg)
                THEN Respond(h, 403)
                ELSE Goto(h, "dislike_create") /\ UNCHANGED hreq
    /\ UNCHANGED dbVars
    /\ UNCHANGED <<messages, hubVars>>

DislikeCheckExisting(h) ==
    /\ hpc[h] = "dislike_existing"
    /\ IF DislikeExists(hreq[h].user, hreq[h].arg)
         THEN Respond(h, 409)
         ELSE Goto(h, "dislike_create") /\ UNCHANGED hreq
    /\ UNCHANGED dbVars
    /\ UNCHANGED <<messages, hubVars>>

\* variant: the disliker's Like of the same user is withdrawn
DislikeCreate_DropsLike(h) ==
    /\ hpc[h] = "dislike_create"
    /\ dislikes' = [dislikes EXCEPT ![<<hreq[h].user, hreq[h].arg>>] = @ + 1]
    /\ likes' = [p \in Pairs |->
                   IF p = <<hreq[h].user, hreq[h].arg>> THEN 0 ELSE likes[p]]
    /\ RespondWritten(h, 200)
    /\ UNCHANGED <<matches, conversations, notifications, blocks>>
    /\ UNCHANGED <<messages, hubVars>>

\* h.db.Create(&dislike), then 200
DislikeCreate(h) ==
    /\ hpc[h] = "dislike_create"
    /\ dislikes' = [dislikes EXCEPT ![<<hreq[h].user, hreq[h].arg>>] = @ + 1]
    /\ RespondWritten(h, 200)
    /\ UNCHANGED <<likes, matches, conversations, notifications, blocks>>
    /\ UNCHANGED <<messages, hubVars>>

(* ---- MatchHandler.Unmatch ---- *)

StartUnmatch(h, u, m) ==
    /\ hpc[h] = "idle"
    /\ hreq' = [hreq EXCEPT ![h] = NewReq("unmatch", u, m)]
    /\ Goto(h, "unmatch_find")
    /\ UNCHANGED dbVars
    /\ UNCHANGED <<messages, hubVars>>

\* variant: the query does not filter on the requester
UnmatchFind_AnyUser(h) ==
    /\ hpc[h] = "unmatch_find"
    /\ IF hreq[h].arg \in MatchIds /\ matches[hreq[h].arg].isActive
         THEN Goto(h, "unmatch_save") /\ UNCHANGED hreq
         ELSE Respond(h, 404)
    /\ UNCHANGED dbVars
    /\ UNCHANGED <<messages, hubVars>>

UnmatchFind(h) ==
    /\ hpc[h] = "unmatch_find"
    /\ IF ActiveMatchOf(hreq[h].user, hreq[h].arg)
         THEN Goto(h, "unmatch_save") /\ UNCHANGED hreq
         ELSE Respond(h, 404)
    /\ UNCHANGED dbVars
    /\ UNCHANGED <<messages, hubVars>>

\* variant: unmatching also deletes the Like rows of the pair
UnmatchSave_DropLikes(h) ==
    /\ hpc[h] = "unmatch_save"
    /\ matches' = [matches EXCEPT ![hreq[h].arg].isActive = FALSE]
    /\ likes' = [likes EXCEPT
                   ![<<matches[hreq[h].arg].user1, matches[hreq[h].arg].user2>>] = 0,
                   ![<<matches[hreq[h].arg].user2, matches[hreq[h].arg].user1>>] = 0]
    /\ hreq' = [hreq EXCEPT ![h].wrote = TRUE]
    /\ Goto(h, "unmatch_conversation")
    /\ UNCHANGED <<conversations, notifications, blocks, dislikes>>
    /\ UNCHANGED <<messages, hubVars>>

\* match.IsActive = false; h.db.Save(&match)
UnmatchSave(h) ==
    /\ hpc[h] = "unmatch_save"
    /\ matches' = [matches EXCEPT ![hreq[h].arg].isActive = FALSE]
    /\ hreq' = [hreq EXCEPT ![h].wrote = TRUE]
    /\ Goto(h, "unmatch_conversation")
    /\ UNCHANGED <<likes, conversations, notifications, blocks, dislikes>>
    /\ UNCHANGED <<messages, hubVars>>

\* the conversation of the match, if one is found, is saved inactive; then 200
UnmatchConversation(h) ==
    /\ hpc[h] = "unmatch_conversation"
    /\ LET c == FirstConversationOf(hreq[h].arg)
       IN conversations' =
             IF c = 0 THEN conversations
             ELSE [conversations EXCEPT ![c].isActive = FALSE]
    /\ Respond(h, 200)
    /\ UNCHANGED <<likes, matches, notifications, blocks, dislikes>>
    /\ UNCHANGED <<messages, hubVars>>

(* ---- UserHandler.BlockUser, UserHandler.UnblockUser ---- *)

StartBlock(h, u, t) ==
    /\ hpc[h] = "idle"
    /\ Cardinality(blocks) < MaxBlocks
    /\ hreq' = [hreq EXCEPT ![h] = NewReq("block", u, t)]
    /\ Goto(h, "block_check")
    /\ UNCHANGED dbVars
    /\ UNCHANGED <<messages, hubVars>>

BlockCheck(h) ==
    /\ hpc[h] = "block_check"
    /\ IF hreq[h].arg \notin Users THEN Respond(h, 404)
       ELSE IF IsBlocked(hreq[h].user, hreq[h].arg) THEN Respond(h, 409)
       ELSE Goto(h, "block_create") /\ UNCHANGED hreq
    /\ UNCHANGED dbVars
    /\ UNCHANGED <<messages, hubVars>>

BlockCreate(h) ==
    /\ hpc[h] = "block_create"
    /\ blocks' = blocks \cup {<<hreq[h].user, hreq[h].arg>>}
    /\ RespondWritten(h, 201)
    /\ UNCHANGED <<likes, matches, conversations, notifications, dislikes>>
    /\ UNCHANGED <<messages, hubVars>>

Unblock(h, u, t) ==
    /\ hpc[h] = "idle"
    /\ IsBlocked(u, t)
    /\ blocks' = blocks \ {<<u, t>>}
    /\ hreq' = [hreq EXCEPT ![h] =
                  [NewReq("unblock", u, t) EXCEPT !.code = 200, !.wrote = TRUE]]
    /\ Goto(h, "done")
    /\ UNCHANGED <<likes, matches, conversations, notifications, dislikes>>
    /\ UNCHANGED <<messages, hubVars>>

----------------------------------------------------------------------------
(* The WebSocket hub.  A goroutine that broadcasts is named <<"pump", c>>   *)
(* (the readPump of session c, on a typing frame) or <<"rest", h>> (the    *)
(* handler goroutine h, in SendMessage).  Hub.Run is a goroutine of its    *)
(* own; it is the only one that serves the register and unregister         *)
(* channels.  Nothing in the program sends on Hub.broadcast and nothing    *)
(* calls BroadcastToUser, so neither has an action here.                   *)

\* the handler goroutine that serves the requests of a sequential run, and
\* the SendMessage requests
SeqHandler == CHOOSE h \in Handlers : \A g \in Handlers : h <= g

Pump(c) == <<"pump", c>>
Rest(h) == <<"rest", h>>
Threads == {Pump(c) : c \in Clients} \cup {Rest(h) : h \in Handlers}

\* c.Get("user_id") of the request that opened session c
ClientUser(c) == ((c - 1) % NumUsers) + 1

\* the locals of a call of BroadcastToConversation and, for the properties,
\* gone: the sessions that had left the map when the call was issued, and
\* hit: the sessions the loop found joined to the conversation
NoIter == [pc |-> "off", conv |-> 0, call |-> 0, snap |-> {}, seen |-> {},
           cur |-> 0, full |-> {}, gone |-> {}, hit |-> {}]

\* session c was put in Hub.clients and has been deleted from it
Removed(c) == rpc[c] # "off" /\ registering # c /\ c \notin clients

\* the goroutines inside the range loop of a broadcast
Iterating == {t \in Threads : iter[t].pc # "off"}

BroadcastsPending ==
    Cardinality({h \in Handlers : hpc[h] \in {"send_access", "send_create", "send_fanout"}})

\* fewer than n broadcasts have been issued or are about to be
CanIssue(n) == Len(calls) + BroadcastsPending < n

\* TypingMessage{Type: "typing", ..., IsTyping: true}
TypingFrame(k, u) ==
    [type |-> "typing", conversationID |-> k, senderID |-> u, isTyping |-> TRUE]

\* TypingMessage{Type: "typing", ..., IsTyping: false}
StopTypingFrame(k, u) ==
    [type |-> "typing", conversationID |-> k, senderID |-> u, isTyping |-> FALSE]

\* websocket.Message{Type: "message", ...}
MessageFrame(k, u) == [type |-> "message", conversationID |-> k, senderID |-> u]

\* a write of Hub.clients by goroutine t; without a lock, it overlaps the range
\* loop of every other goroutine that is inside one, and the runtime may then
\* throw "concurrent map iteration and map write"
MapWrite(t, newClients) ==
    \/ /\ clients' = newClients
       /\ raced' = (raced \/ Iterating \ {t} # {})
       /\ crashed' = crashed
    \/ /\ Iterating \ {t} # {}
       /\ clients' = clients
       /\ raced' = TRUE
       /\ crashed' = TRUE

(* ---- HandleWebSocket, Hub.Run ---- *)

\* the upgrade succeeds, the client is handed to Run over the unbuffered
\* register channel (Run must be at its select), and both pumps are started
HandleWebSocket(c) ==
    /\ ~crashed
    /\ UNCHANGED <<dbVars, messages, reqVars>>
    /\ rpc[c] = "off"
    /\ registering = 0
    /\ registering' = c
    /\ rpc' = [rpc EXCEPT ![c] = "read"]
    /\ wpc' = [wpc EXCEPT ![c] = "run"]
    /\ UNCHANGED <<clients, send, closed, conversationID,
                   hist, iter, calls, crashed, panics, raced>>
    /\ UNCHANGED <<bad, unauth>>

\* The Authorization header of a request: its scheme, whether jwt.Parse
\* accepts the token (signature and expiry), and its user_id claim, if any.
Requests(u) ==
    [scheme : {"none", "Basic", "Bearer"}, valid : BOOLEAN, claim : {NoUser, u}]

\* the token was issued to a user and verifies
Authentic(r) == r.scheme = "Bearer" /\ r.valid /\ r.claim \in Users

\* variant: the result of jwt.Parse is not looked at
AuthRequired_Unverified(r) ==
    IF r.scheme = "none" THEN NoUser
    ELSE IF r.scheme # "Bearer" THEN NoUser
    ELSE r.claim

\* middleware.AuthRequired: the user id set in the context, or NoUser when
\* the request is answered 401 and aborted
AuthRequired(r) ==
    IF r.scheme = "none" THEN NoUser
    ELSE IF r.scheme # "Bearer" THEN NoUser
    ELSE IF ~r.valid THEN NoUser
    ELSE r.claim

\* GET /ws with Authorization header r on connection c: AuthRequired, then
\* HandleWebSocket
WsUpgrade(c, r) ==
    /\ ~crashed
    /\ UNCHANGED <<dbVars, messages, reqVars>>
    /\ rpc[c] = "off"
    /\ registering = 0
    /\ IF AuthRequired(r) = NoUser
         THEN /\ rpc' = [rpc EXCEPT ![c] = "refused"]
              /\ UNCHANGED <<registering, wpc>>
         ELSE /\ registering' = c
              /\ rpc' = [rpc EXCEPT ![c] = "read"]
              /\ wpc' = [wpc EXCEPT ![c] = "run"]
    /\ unauth' = IF Authentic(r) THEN unauth ELSE unauth \cup {c}
    /\ UNCHANGED <<clients, send, closed, conversationID, hist, bad, iter, calls,
                   crashed, panics, raced>>

\* case client := <-h.register: h.clients[client] = true
RunRegister ==
    /\ ~crashed
    /\ UNCHANGED <<dbVars, messages, reqVars>>
    /\ registering # 0
    /\ MapWrite(<<"run", 0>>, clients \cup {registering})
    /\ registering' = 0
    /\ UNCHANGED <<sessVars, iter, calls, panics>>

\* case client := <-h.unregister: the deferred send of readPump is received;
\* if the client is in the map it is deleted and its channel closed
RunUnregister(c) ==
    /\ ~crashed
    /\ UNCHANGED <<dbVars, messages, reqVars>>
    /\ rpc[c] = "unregister"
    /\ registering = 0
    /\ IF c \in clients
         THEN IF closed[c]
                THEN \* close of a closed channel: Run panics, the process dies
                     /\ clients' = clients \ {c}
                     /\ raced' = (raced \/ Iterating # {})
                     /\ panics' = TRUE
                     /\ crashed' = TRUE
                     /\ UNCHANGED <<rpc, closed>>
                ELSE /\ MapWrite(<<"run", 0>>, clients \ {c})
                     /\ closed' = [closed EXCEPT ![c] = TRUE]
                     /\ rpc' = [rpc EXCEPT ![c] = "done"]
                     /\ panics' = panics
         ELSE /\ rpc' = [rpc EXCEPT ![c] = "done"]
              /\ UNCHANGED <<clients, closed, crashed, panics, raced>>
    /\ UNCHANGED <<registering, wpc, send, conversationID,
                   hist, iter, calls>>
    /\ UNCHANGED <<bad, unauth>>

(* ---- Client.readPump ---- *)

\* the socket is open for reading until writePump has closed the connection
ConnOpen(c) == wpc[c] = "run"

\* case "join_conversation": c.conversationID = uint(convID)
ReadJoin(c, k) ==
    /\ ~crashed
    /\ UNCHANGED <<dbVars, messages, reqVars>>
    /\ rpc[c] = "read"
    /\ ConnOpen(c)
    /\ conversationID' = [conversationID EXCEPT ![c] = k]
    /\ UNCHANGED <<clients, registering, rpc, wpc, send, closed, hist,
                   iter, calls, crashed, panics, raced>>
    /\ UNCHANGED <<bad, unauth>>

\* json.Unmarshal fails: the error is logged and the loop continues
ReadMalformed(c) ==
    /\ ~crashed
    /\ UNCHANGED <<dbVars, messages, reqVars>>
    /\ rpc[c] = "read"
    /\ ConnOpen(c)
    /\ bad' = bad \cup {c}
    /\ unauth' = unauth
    /\ UNCHANGED <<clients, registering, rpc, wpc, send, closed, conversationID,
                   hist, iter, calls, crashed, panics, raced>>

\* func (h *Hub) BroadcastToConversation(conversationID uint, message []byte):
\* goroutine t enters the range loop
BeginBroadcast(t, k, frame) ==
    /\ calls' = Append(calls, [conv |-> k, frame |-> frame])
    /\ iter' = [iter EXCEPT ![t] =
                  [NoIter EXCEPT !.pc = "range", !.conv = k,
                                 !.call = Len(calls) + 1, !.snap = clients,
                                 !.gone = {c \in Clients : Removed(c)}]]

\* case "typing": the indicator is broadcast to the conversation named in
\* the frame
ReadTyping(c, k) ==
    /\ ~crashed
    /\ UNCHANGED <<dbVars, messages, reqVars>>
    /\ rpc[c] = "read"
    /\ ConnOpen(c)
    /\ BeginBroadcast(Pump(c), k, TypingFrame(k, ClientUser(c)))
    /\ rpc' = [rpc EXCEPT ![c] = "broadcast"]
    /\ UNCHANGED <<clients, registering, wpc, send, closed, conversationID,
                   hist, crashed, panics, raced>>
    /\ UNCHANGED <<bad, unauth>>

\* case "stop_typing": the same, with IsTyping false
ReadStopTyping(c, k) ==
    /\ ~crashed
    /\ UNCHANGED <<dbVars, messages, reqVars>>
    /\ rpc[c] = "read"
    /\ ConnOpen(c)
    /\ BeginBroadcast(Pump(c), k, StopTypingFrame(k, ClientUser(c)))
    /\ rpc' = [rpc EXCEPT ![c] = "broadcast"]
    /\ UNCHANGED <<clients, registering, wpc, send, closed, conversationID,
                   hist, crashed, panics, raced>>
    /\ UNCHANGED <<bad, unauth>>

\* ReadMessage returns an error: break, and the deferred function runs
ReadError(c) ==
    /\ ~crashed
    /\ UNCHANGED <<dbVars, messages, reqVars>>
    /\ rpc[c] = "read"
    /\ rpc' = [rpc EXCEPT ![c] = "unregister"]
    /\ UNCHANGED <<clients, registering, wpc, send, closed, conversationID,
                   hist, iter, calls, crashed, panics, raced>>
    /\ UNCHANGED <<bad, unauth>>

(* ---- Client.writePump ---- *)

\* case message, ok := <-c.send with ok: the frame is or the write
\* fails and the pump returns (the deferred conn.Close runs)
WriteFrame(c) ==
    /\ ~crashed
    /\ UNCHANGED <<dbVars, messages, reqVars>>
    /\ wpc[c] = "run"
    /\ send[c] # << >>
    /\ send' = [send EXCEPT ![c] = Tail(@)]
    /\ \/ wpc' = wpc
       \/ wpc' = [wpc EXCEPT ![c] = "done"]
    /\ UNCHANGED <<clients, registering, rpc, closed, conversationID,
                   hist, iter, calls, crashed, panics, raced>>
    /\ UNCHANGED <<bad, unauth>>

\* case message, ok := <-c.send with !ok: the channel is closed and drained
WriteClose(c) ==
    /\ ~crashed
    /\ UNCHANGED <<dbVars, messages, reqVars>>
    /\ wpc[c] = "run"
    /\ send[c] = << >>
    /\ closed[c]
    /\ wpc' = [wpc EXCEPT ![c] = "done"]
    /\ UNCHANGED <<clients, registering, rpc, send, closed, conversationID,
                   hist, iter, calls, crashed, panics, raced>>
    /\ UNCHANGED <<bad, unauth>>

(* ---- Hub.BroadcastToConversation ---- *)

\* variant: the loop ranges over every session ever opened, in the map or not
Range_Unpruned(t) ==
    /\ ~crashed
    /\ iter[t].pc = "range"
    /\ \E x \in {c \in Clients : rpc[c] # "off"} \ iter[t].seen :
          LET joined == conversationID[x] = iter[t].conv
          IN iter' = [iter EXCEPT ![t].seen = @ \cup {x},
                                  ![t].hit = IF joined THEN @ \cup {x} ELSE @,
                                  ![t].cur = IF joined THEN x ELSE 0,
                                  ![t].pc = IF joined THEN "send" ELSE "range"]
    /\ UNCHANGED <<dbVars, messages, reqVars, clients, registering, sessVars,
                   calls, crashed, panics, raced>>

\* variant: a session that has joined no conversation is taken as well
Range_Unjoined(t) ==
    /\ ~crashed
    /\ iter[t].pc = "range"
    /\ \E x \in clients \ iter[t].seen :
          LET joined == conversationID[x] \in {iter[t].conv, NoConv}
          IN iter' = [iter EXCEPT ![t].seen = @ \cup {x},
                                  ![t].hit = IF conversationID[x] = iter[t].conv
                                               THEN @ \cup {x} ELSE @,
                                  ![t].cur = IF joined THEN x ELSE 0,
                                  ![t].pc = IF joined THEN "send" ELSE "range"]
    /\ UNCHANGED <<dbVars, messages, reqVars, clients, registering, sessVars,
                   calls, crashed, panics, raced>>

\* variant: the session of the goroutine that broadcasts is skipped
Range_NotSender(t) ==
    /\ ~crashed
    /\ iter[t].pc = "range"
    /\ \E x \in clients \ iter[t].seen :
          LET joined == conversationID[x] = iter[t].conv /\ Pump(x) # t
          IN iter' = [iter EXCEPT ![t].seen = @ \cup {x},
                                  ![t].hit = IF joined THEN @ \cup {x} ELSE @,
                                  ![t].cur = IF joined THEN x ELSE 0,
                                  ![t].pc = IF joined THEN "send" ELSE "range"]
    /\ UNCHANGED <<dbVars, messages, reqVars, clients, registering, sessVars,
                   calls, crashed, panics, raced>>

\* for client := range h.clients { if client.conversationID == conversationID
\* the next key of the map is taken and its field compared.  The field is
\* read with no synchronisation while the readPump of the client may write
\* it: the word-sized read returns the value before or after such a write,
\* which is this step taken before or after ReadJoin.
Range(t) ==
    /\ ~crashed
    /\ iter[t].pc = "range"
    /\ \E x \in clients \ iter[t].seen :
          LET joined == conversationID[x] = iter[t].conv
          IN iter' = [iter EXCEPT ![t].seen = @ \cup {x},
                                  ![t].hit = IF joined THEN @ \cup {x} ELSE @,
                                  ![t].cur = IF joined THEN x ELSE 0,
                                  ![t].pc = IF joined THEN "send" ELSE "range"]
    /\ UNCHANGED <<dbVars, messages, reqVars, clients, registering, sessVars,
                   calls, crashed, panics, raced>>

\* select { case client.send <- message: ... default: ... } on an open channel
TrySend(t) ==
    /\ ~crashed
    /\ iter[t].pc = "send"
    /\ ~closed[iter[t].cur]
    /\ LET x == iter[t].cur IN
       IF Len(send[x]) < SendCap
         THEN /\ send' = [send EXCEPT ![x] = Append(@, iter[t].call)]
              /\ hist' = [hist EXCEPT ![x] =
                            Append(@, [call |-> iter[t].call,
                                        joined |-> conversationID[x] = iter[t].conv])]
              /\ iter' = [iter EXCEPT ![t].pc = "range", ![t].cur = 0]
         ELSE /\ iter' = [iter EXCEPT ![t].pc = "close", ![t].full = @ \cup {x}]
              /\ UNCHANGED <<send, hist>>
    /\ UNCHANGED <<dbVars, messages, reqVars, clients, registering, rpc, wpc,
                   closed, conversationID, calls, crashed,
                   panics, raced>>
    /\ UNCHANGED <<bad, unauth>>

\* default: close(client.send) on an open channel
CloseFull(t) ==
    /\ ~crashed
    /\ iter[t].pc = "close"
    /\ ~closed[iter[t].cur]
    /\ closed' = [closed EXCEPT ![iter[t].cur] = TRUE]
    /\ iter' = [iter EXCEPT ![t].pc = "delete"]
    /\ UNCHANGED <<dbVars, messages, reqVars, clients, registering, rpc, wpc,
                   send, conversationID, hist, calls, crashed,
                   panics, raced>>
    /\ UNCHANGED <<bad, unauth>>

\* default: delete(h.clients, client)
DeleteFull(t) ==
    /\ ~crashed
    /\ iter[t].pc = "delete"
    /\ MapWrite(t, clients \ {iter[t].cur})
    /\ iter' = [iter EXCEPT ![t].pc = "range", ![t].cur = 0]
    /\ UNCHANGED <<dbVars, messages, reqVars, registering, sessVars, calls, panics>>

\* the send, or the close, is on a channel that is already closed
LoopPanics(t) == iter[t].pc \in {"send", "close"} /\ closed[iter[t].cur]

\* the range is over: every key that was in the map when the loop began and
\* is still there has been produced
LoopDone(t) ==
    /\ iter[t].pc = "range"
    /\ (iter[t].snap \cap clients) \ iter[t].seen = {}

\* the panic unwinds readPump (its deferred function blocks on unregister or
\* not, the panic is not recovered) and the process dies
PumpPanic(c) ==
    /\ ~crashed
    /\ rpc[c] = "broadcast"
    /\ LoopPanics(Pump(c))
    /\ panics' = TRUE
    /\ crashed' = TRUE
    /\ UNCHANGED <<dbVars, messages, reqVars, clients, registering, sessVars,
                   iter, calls, raced>>

\* BroadcastToConversation returns to readPump, which reads the next frame
PumpReturn(c) ==
    /\ ~crashed
    /\ rpc[c] = "broadcast"
    /\ LoopDone(Pump(c))
    /\ iter' = [iter EXCEPT ![Pump(c)] = NoIter]
    /\ rpc' = [rpc EXCEPT ![c] = "read"]
    /\ UNCHANGED <<dbVars, messages, reqVars, clients, registering, wpc, send,
                   closed, conversationID, hist, calls,
                   crashed, panics, raced>>
    /\ UNCHANGED <<bad, unauth>>

(* ---- MessageHandler.SendMessage ---- *)

StartSend(h, u, k) ==
    /\ ~crashed
    /\ hpc[h] = "idle"
    /\ hreq' = [hreq EXCEPT ![h] = NewReq("send", u, k)]
    /\ Goto(h, "send_access")
    /\ UNCHANGED <<dbVars, messages, hubVars>>

\* the conversation is active and the user is user1 or user2 of its match
userHasAccessToConversation(u, k) ==
    /\ k \in ConversationIds
    /\ conversations[k].isActive
    /\ conversations[k].matchID \in MatchIds
    /\ IsParticipant(u, conversations[k].matchID)

SendCheckAccess(h) ==
    /\ ~crashed
    /\ hpc[h] = "send_access"
    /\ IF userHasAccessToConversation(hreq[h].user, hreq[h].arg)
         THEN Goto(h, "send_create") /\ UNCHANGED hreq
         ELSE Respond(h, 403)
    /\ UNCHANGED <<dbVars, messages, hubVars>>

NewMessage(k, u) == [conversationID |-> k, senderID |-> u]

\* h.db.Create(&message)
SendCreate(h) ==
    /\ ~crashed
    /\ hpc[h] = "send_create"
    /\ messages' = Append(messages, NewMessage(hreq[h].arg, hreq[h].user))
    /\ hreq' = [hreq EXCEPT ![h].mid = Len(messages) + 1, ![h].wrote = TRUE]
    /\ Goto(h, "send_fanout")
    /\ UNCHANGED <<dbVars, hubVars>>

\* variant: the return after the failed Create is missing
SendCreateFails_FallsThrough(h) ==
    /\ ~crashed
    /\ hpc[h] = "send_create"
    /\ Goto(h, "send_fanout")
    /\ UNCHANGED <<dbVars, messages, hreq, hubVars>>

\* h.db.Create(&message) returns an error: 500, and the handler returns
SendCreateFails(h) ==
    /\ ~crashed
    /\ hpc[h] = "send_create"
    /\ Respond(h, 500)
    /\ UNCHANGED <<dbVars, messages, hubVars>>

\* h.hub.BroadcastToConversation(uint(conversationID), messageBytes)
SendFanout(h) ==
    /\ ~crashed
    /\ hpc[h] = "send_fanout"
    /\ BeginBroadcast(Rest(h), hreq[h].arg, MessageFrame(hreq[h].arg, hreq[h].user))
    /\ Goto(h, "send_broadcast")
    /\ UNCHANGED <<dbVars, messages, hreq, clients, registering, sessVars,
                   crashed, panics, raced>>

\* the panic unwinds the handler; gin's Recovery middleware answers 500
RestPanic(h) ==
    /\ ~crashed
    /\ hpc[h] = "send_broadcast"
    /\ LoopPanics(Rest(h))
    /\ panics' = TRUE
    /\ iter' = [iter EXCEPT ![Rest(h)] = NoIter]
    /\ hpc' = [hpc EXCEPT ![h] = "done"]
    /\ hreq' = [hreq EXCEPT ![h].code = 500, ![h].full = iter[Rest(h)].full]
    /\ UNCHANGED <<dbVars, messages, clients, registering, sessVars, calls,
                   crashed, raced>>

\* BroadcastToConversation returns to SendMessage
RestReturn(h) ==
    /\ ~crashed
    /\ hpc[h] = "send_broadcast"
    /\ LoopDone(Rest(h))
    /\ iter' = [iter EXCEPT ![Rest(h)] = NoIter]
    /\ hreq' = [hreq EXCEPT ![h].full = iter[Rest(h)].full]
    /\ Goto(h, "send_notify")
    /\ UNCHANGED <<dbVars, messages, clients, registering, sessVars, calls,
                   crashed, panics, raced>>

\* CASE WHEN matches.user1_id = sender THEN user2_id ELSE user1_id, or 0
OtherUser(k, u) ==
    IF k \in ConversationIds /\ conversations[k].matchID \in MatchIds
      THEN LET m == matches[conversations[k].matchID]
           IN IF m.user1 = u THEN m.user2 ELSE m.user1
      ELSE 0

MessageNotification(u, k) == [userID |-> u, type |-> "message", data |-> k]

\* createMessageNotification, then 201
SendNotify(h) ==
    /\ ~crashed
    /\ hpc[h] = "send_notify"
    /\ LET o == OtherUser(hreq[h].arg, hreq[h].user)
       IN notifications' =
             IF o = 0 THEN notifications
             ELSE Append(notifications, MessageNotification(o, hreq[h].arg))
    /\ Respond(h, 201)
    /\ UNCHANGED <<likes, matches, conversations, blocks, dislikes, messages, hubVars>>

----------------------------------------------------------------------------
(* Specifications. *)

\* NewHub(): no client; the fields of a Client as HandleWebSocket builds it
HubIdle ==
    /\ clients = {}
    /\ registering = 0
    /\ rpc = [c \in Clients |-> "off"]
    /\ wpc = [c \in Clients |-> "off"]
    /\ send = [c \in Clients |-> << >>]
    /\ closed = [c \in Clients |-> FALSE]
    /\ conversationID = [c \in Clients |-> NoConv]
    /\ hist = [c \in Clients |-> << >>]
    /\ bad = {}
    /\ unauth = {}
    /\ iter = [t \in Threads |-> NoIter]
    /\ calls = << >>
    /\ crashed = FALSE
    /\ panics = FALSE
    /\ raced = FALSE

Init ==
    /\ likes = [p \in Pairs |-> 0]
    /\ matches = << >>
    /\ conversations = << >>
    /\ notifications = << >>
    /\ blocks = {}
    /\ dislikes = [p \in DislikePairs |-> 0]
    /\ messages = << >>
    /\ hpc = [h \in Handlers |-> "idle"]
    /\ hreq = [h \in Handlers |-> NoReq]
    /\ HubIdle

MatchStep(h, U) ==
    \/ \E u \in U, t \in U \cup {NoUser} : StartLike(h, u, t)
    \/ LikeCheckUser(h)
    \/ LikeCheckExisting(h)
    \/ LikeCheckBlocked(h)
    \/ LikeCreate(h)
    \/ LikeCheckMutual(h)
    \/ LikeCreateMatch(h)
    \/ LikeCreateConversation(h)
    \/ LikeNotify(h)
    \/ \E u \in U, m \in 1..(Len(matches) + 1) : StartUnmatch(h, u, m)
    \/ UnmatchFind(h)
    \/ UnmatchSave(h)
    \/ UnmatchConversation(h)
    \/ Return(h)

BlockStep(h, U) ==
    \/ \E u \in U, t \in U \cup {NoUser} : StartBlock(h, u, t)
    \/ BlockCheck(h)
    \/ BlockCreate(h)
    \/ \E u \in U, t \in U : Unblock(h, u, t)

DislikeStep(h, U) ==
    \/ \E u \in U, t \in U \cup {NoUser} : StartDislike(h, u, t)
    \/ DislikeCheckExisting(h)
    \/ DislikeCreate(h)

\* The match engine under concurrent requests: the like and unmatch requests
\* of the users 1..NumRacers, served by NumHandlers goroutines at once.
Next == \E h \in Handlers : MatchStep(h, Racers)

Spec == Init /\ [][Next]_vars

\* The match engine with the requests of all users served one after another
\* (which goroutine serves them is then immaterial: it is the first).
SeqNext == MatchStep(SeqHandler, Users)

SeqSpec == Init /\ [][SeqNext]_vars

\* The like, unmatch, block and unblock requests of the users 1..NumRacers,
\* served one after another.
BlockNext == MatchStep(SeqHandler, Racers) \/ BlockStep(SeqHandler, Racers)

BlockSpec == Init /\ [][BlockNext]_vars

\* Like, unmatch, block, unblock and dislike requests of the users
\* 1..NumRacers, served one after another.
DislikeNext ==
    \/ MatchStep(SeqHandler, Racers)
    \/ BlockStep(SeqHandler, Racers)
    \/ DislikeStep(SeqHandler, Racers)

DislikeSpec == Init /\ [][DislikeNext]_vars

\* Like and unmatch requests of the users 1..NumRacers served one after
\* another against a store whose Create of a Match or of a Conversation may
\* fail.
FailNext ==
    \/ MatchStep(SeqHandler, Racers)
    \/ LikeCreateMatchFails(SeqHandler)
    \/ LikeCreateConversationFails(SeqHandler)

FailSpec == Init /\ [][FailNext]_vars

\* The hub, with the store as the match engine leaves it once users 1 and 2
\* have liked each other (2 last): their match and its conversation 1.
HubInit ==
    /\ likes = [p \in Pairs |-> IF p \in {<<1, 2>>, <<2, 1>>} THEN 1 ELSE 0]
    /\ matches = << NewMatch(2, 1) >>
    /\ conversations = << NewConversation(1) >>
    /\ notifications = << MatchNotification(2, 1), MatchNotification(1, 1) >>
    /\ blocks = {}
    /\ dislikes = [p \in DislikePairs |-> 0]
    /\ messages = << >>
    /\ hpc = [h \in Handlers |-> "idle"]
    /\ hreq = [h \in Handlers |-> NoReq]
    /\ HubIdle

\* the steps of session c and of Hub.Run on its behalf
SessionStep(c) ==
    \/ HandleWebSocket(c)
    \/ RunUnregister(c)
    \/ \E k \in ConvIds : ReadJoin(c, k)
    \/ ReadError(c)
    \/ WriteFrame(c)
    \/ WriteClose(c)

\* the steps of the readPump of session c on typing frames
TypingStep(c, n) ==
    \/ \E k \in ConvIds : CanIssue(n) /\ ReadTyping(c, k)
    \/ PumpPanic(c)
    \/ PumpReturn(c)

\* the steps of the handler goroutine that serves SendMessage
SendStep(h, n) ==
    \/ \E u \in Senders, k \in ConvIds : CanIssue(n) /\ StartSend(h, u, k)
    \/ SendCheckAccess(h)
    \/ SendCreate(h)
    \/ SendFanout(h)
    \/ RestPanic(h)
    \/ RestReturn(h)
    \/ SendNotify(h)
    \/ ~crashed /\ Return(h)

\* the steps inside BroadcastToConversation, whoever called it
LoopStep(t) ==
    \/ Range(t)
    \/ TrySend(t)
    \/ CloseFull(t)
    \/ DeleteFull(t)

\* The hub with all its sessions, whose clients join conversations and
\* disconnect, Hub.Run, and SendMessage requests served one after another.
HubNext ==
    \/ \E c \in Clients : SessionStep(c)
    \/ RunRegister
    \/ LoopStep(Rest(SeqHandler))
    \/ SendStep(SeqHandler, MaxCalls)

HubSpec == HubInit /\ [][HubNext]_vars

\* The hub with the sessions 1..NumSolo, whose clients also send typing
\* frames, so that the broadcast of a readPump and the broadcast of
\* SendMessage overlap.
OverlapNext ==
    \/ \E c \in Solo : SessionStep(c)
    \/ \E c \in Solo : TypingStep(c, MaxOverlap)
    \/ RunRegister
    \/ \E t \in Threads : LoopStep(t)
    \/ SendStep(SeqHandler, MaxOverlap)

OverlapSpec == HubInit /\ [][OverlapNext]_vars

\* The hub with all its sessions, of which the sessions 1..NumSolo also send
\* typing and stop_typing frames; no SendMessage requests.
TypingNext ==
    \/ \E c \in Clients : SessionStep(c)
    \/ RunRegister
    \/ \E c \in Solo : TypingStep(c, MaxCalls)
    \/ \E c \in Solo, k \in ConvIds : CanIssue(MaxCalls) /\ ReadStopTyping(c, k)
    \/ \E c \in Solo : LoopStep(Pump(c))

TypingSpec == HubInit /\ [][TypingNext]_vars

\* a handler goroutine that serves requests while SeqHandler serves others
OtherHandler == CHOOSE h \in Handlers : h # SeqHandler

\* SendMessage requests served by one goroutine while another serves Unmatch
\* requests; no session is connected, so that each fan-out finds an empty map.
SendUnmatchNext ==
    \/ \E u \in Senders, k \in ConvIds :
          CanIssue(MaxCalls) /\ StartSend(SeqHandler, u, k)
    \/ SendCheckAccess(SeqHandler)
    \/ SendCreate(SeqHandler)
    \/ SendFanout(SeqHandler)
    \/ RestReturn(SeqHandler)
    \/ SendNotify(SeqHandler)
    \/ \E u \in Racers, m \in 1..(Len(matches) + 1) : StartUnmatch(OtherHandler, u, m)
    \/ UnmatchFind(OtherHandler)
    \/ UnmatchSave(OtherHandler)
    \/ UnmatchConversation(OtherHandler)
    \/ \E h \in {SeqHandler, OtherHandler} : Return(h)

SendUnmatchSpec == HubInit /\ [][SendUnmatchNext]_vars

\* the last user
Outsider == NumUsers

\* The store once users 1 and NumUsers have liked each other (NumUsers last):
\* the owner of session 2 takes no part in their match and its conversation 1.
OutsiderInit ==
    /\ likes = [p \in Pairs |->
                  IF p \in {<<1, Outsider>>, <<Outsider, 1>>} THEN 1 ELSE 0]
    /\ matches = << NewMatch(Outsider, 1) >>
    /\ conversations = << NewConversation(1) >>
    /\ notifications = << MatchNotification(Outsider, 1), MatchNotification(1, 1) >>
    /\ blocks = {}
    /\ dislikes = [p \in DislikePairs |-> 0]
    /\ messages = << >>
    /\ hpc = [h \in Handlers |-> "idle"]
    /\ hreq = [h \in Handlers |-> NoReq]
    /\ HubIdle

\* The hub of HubSpec over that store.
OutsiderSpec == OutsiderInit /\ [][HubNext]_vars

\* The store of HubInit and the hub once every session has been registered
\* by Run and has joined conversation 1.
JoinedInit ==
    /\ likes = [p \in Pairs |-> IF p \in {<<1, 2>>, <<2, 1>>} THEN 1 ELSE 0]
    /\ matches = << NewMatch(2, 1) >>
    /\ conversations = << NewConversation(1) >>
    /\ notifications = << MatchNotification(2, 1), MatchNotification(1, 1) >>
    /\ blocks = {}
    /\ dislikes = [p \in DislikePairs |-> 0]
    /\ messages = << >>
    /\ hpc = [h \in Handlers |-> "idle"]
    /\ hreq = [h \in Handlers |-> NoReq]
    /\ clients = Clients
    /\ registering = 0
    /\ rpc = [c \in Clients |-> "read"]
    /\ wpc = [c \in Clients |-> "run"]
    /\ send = [c \in Clients |-> << >>]
    /\ closed = [c \in Clients |-> FALSE]
    /\ conversationID = [c \in Clients |-> 1]
    /\ hist = [c \in Clients |-> << >>]
    /\ bad = {}
    /\ unauth = {}
    /\ iter = [t \in Threads |-> NoIter]
    /\ calls = << >>
    /\ crashed = FALSE
    /\ panics = FALSE
    /\ raced = FALSE

\* Sessions that stay connected and joined, and SendMessage requests served
\* by all handler goroutines at once, so that the broadcasts of two requests
\* overlap.
ConcurrentSendNext ==
    \/ \E c \in Clients : WriteFrame(c)
    \/ \E c \in Clients : WriteClose(c)
    \/ \E h \in Handlers : LoopStep(Rest(h))
    \/ \E h \in Handlers : SendStep(h, MaxOverlap)

ConcurrentSendSpec == JoinedInit /\ [][ConcurrentSendNext]_vars

\* Sessions that are registered and joined and then disconnect, and
\* SendMessage requests served one after another against a store whose
\* Create may fail.
PersistNext ==
    \/ \E c \in Clients : ReadError(c)
    \/ \E c \in Clients : RunUnregister(c)
    \/ \E c \in Clients : WriteFrame(c)
    \/ \E c \in Clients : WriteClose(c)
    \/ LoopStep(Rest(SeqHandler))
    \/ SendStep(SeqHandler, MaxCalls)
    \/ SendCreateFails(SeqHandler)

PersistSpec == JoinedInit /\ [][PersistNext]_vars

\* The sessions 1..NumSolo, Hub.Run and SendMessage requests served one after
\* another, under fair scheduling: a goroutine that can take a step takes it
\* in the end.  When a client connects, what it sends, when it disconnects
\* and when a request arrives are the environment's choice; ReadMessage is
\* bound to fail only once the connection has been closed.
TeardownNext ==
    \/ \E c \in Solo : SessionStep(c)
    \/ RunRegister
    \/ LoopStep(Rest(SeqHandler))
    \/ SendStep(SeqHandler, MaxCalls)

TeardownFairness ==
    /\ WF_vars(RunRegister)
    /\ \A c \in Solo : WF_vars(RunUnregister(c))
    /\ \A c \in Solo : WF_vars(WriteFrame(c))
    /\ \A c \in Solo : WF_vars(WriteClose(c))
    /\ \A c \in Solo : WF_vars(~ConnOpen(c) /\ ReadError(c))
    /\ WF_vars(LoopStep(Rest(SeqHandler)))
    /\ WF_vars(SendCheckAccess(SeqHandler))
    /\ WF_vars(SendCreate(SeqHandler))
    /\ WF_vars(SendFanout(SeqHandler))
    /\ WF_vars(RestPanic(SeqHandler))
    /\ WF_vars(RestReturn(SeqHandler))
    /\ WF_vars(SendNotify(SeqHandler))

TeardownSpec == HubInit /\ [][TeardownNext]_vars /\ TeardownFairness

\* The store of HubInit and the hub once every session has been registered
\* by Run; no session has sent a join_conversation frame.
RegisteredInit ==
    /\ likes = [p \in Pairs |-> IF p \in {<<1, 2>>, <<2, 1>>} THEN 1 ELSE 0]
    /\ matches = << NewMatch(2, 1) >>
    /\ conversations = << NewConversation(1) >>
    /\ notifications = << MatchNotification(2, 1), MatchNotification(1, 1) >>
    /\ blocks = {}
    /\ dislikes = [p \in DislikePairs |-> 0]
    /\ messages = << >>
    /\ hpc = [h \in Handlers |-> "idle"]
    /\ hreq = [h \in Handlers |-> NoReq]
    /\ clients = Clients
    /\ registering = 0
    /\ rpc = [c \in Clients |-> "read"]
    /\ wpc = [c \in Clients |-> "run"]
    /\ send = [c \in Clients |-> << >>]
    /\ closed = [c \in Clients |-> FALSE]
    /\ conversationID = [c \in Clients |-> NoConv]
    /\ hist = [c \in Clients |-> << >>]
    /\ bad = {}
    /\ unauth = {}
    /\ iter = [t \in Threads |-> NoIter]
    /\ calls = << >>
    /\ crashed = FALSE
    /\ panics = FALSE
    /\ raced = FALSE

\* Registered sessions that join conversations and disconnect, of which the
\* sessions 1..NumSolo also send typing and stop_typing frames whose
\* conversation_id is any number, 0 included.
ZeroNext ==
    \/ \E c \in Clients, k \in ConvIds : ReadJoin(c, k)
    \/ \E c \in Clients : ReadError(c)
    \/ \E c \in Clients : RunUnregister(c)
    \/ \E c \in Clients : WriteFrame(c)
    \/ \E c \in Clients : WriteClose(c)
    \/ \E c \in Solo, k \in ConvIds \cup {NoConv} :
          CanIssue(MaxCalls) /\ (ReadTyping(c, k) \/ ReadStopTyping(c, k))
    \/ \E c \in Solo : PumpPanic(c)
    \/ \E c \in Solo : PumpReturn(c)
    \/ \E c \in Solo : LoopStep(Pump(c))

ZeroSpec == RegisteredInit /\ [][ZeroNext]_vars

\* Admission to the hub: upgrade requests with every kind of Authorization
\* header, and the sessions they open joining conversations and leaving.
AuthNext ==
    \/ \E c \in Clients : \E r \in Requests(ClientUser(c)) : WsUpgrade(c, r)
    \/ RunRegister
    \/ \E c \in Clients : RunUnregister(c)
    \/ \E c \in Clients, k \in ConvIds : ReadJoin(c, k)
    \/ \E c \in Clients : ReadError(c)
    \/ \E c \in Clients : WriteClose(c)

AuthSpec == HubInit /\ [][AuthNext]_vars

\* OverlapSpec with clients that also send frames that are not JSON.
FrameNext ==
    \/ OverlapNext
    \/ \E c \in Solo : ReadMalformed(c)

FrameSpec == HubInit /\ [][FrameNext]_vars

----------------------------------------------------------------------------
(* Properties of the match engine. *)

Done(h, op) == hpc[h] = "done" /\ hreq[h].op = op

\* the matches of the request's pair that it did not create itself
EarlierMatches(h) == MatchesOfPair(hreq[h].user, hreq[h].arg) \ {hreq[h].mid}

\* when the like request arrived its pair had been matched and unmatched
Unmatched(h) ==
    /\ EarlierMatches(h) # {}
    /\ \A m \in EarlierMatches(h) : ~matches[m].isActive

\* C1: with requests served in turn, a like of another user that finds no
\* reverse Like answers 200 and the pair has no Match; one that finds the
\* reverse Like answers 201 and the pair has exactly one Match, the liker as
\* user1, the liked as user2, active, with exactly one Conversation, active,
\* whose matchID is that Match.
C1_MutualLikeCreatesMatch ==
    \A h \in Handlers :
        (/\ Done(h, "like")
         /\ hreq[h].arg \in Users
         /\ hreq[h].user # hreq[h].arg
         /\ ~hreq[h].pre)
        => LET a == hreq[h].user
               b == hreq[h].arg
               m == hreq[h].mid
           IN IF likes[<<b, a>>] = 0
                THEN hreq[h].code = 200 /\ m = 0 /\ MatchesOfPair(a, b) = {}
                ELSE /\ hreq[h].code = 201
                     /\ MatchesOfPair(a, b) = {m}
                     /\ matches[m] = [user1 |-> a, user2 |-> b, isActive |-> TRUE]
                     /\ Cardinality(ConversationsOf(m)) = 1
                     /\ \A c \in ConversationsOf(m) : conversations[c].isActive

C1_Witness ==
    \E h \in Handlers :
        /\ Done(h, "like")
        /\ hreq[h].user # hreq[h].arg
        /\ ~hreq[h].pre
        /\ hreq[h].code = 201
        /\ hreq[h].mid \in MatchIds

\* C2: no pair of distinct users ever has more than one Match row, also
\* when like requests run concurrently.
C2_OneMatchPerPair ==
    \A a \in Users, b \in Users :
        a # b => Cardinality(MatchesOfPair(a, b)) <= 1

\* C8: with requests served in turn, a like of an existing user whose Like
\* already existed answers 409 and has written nothing; one whose Like did
\* not exist, by a liker who does not block the liked, answers 200 or 201 and
\* leaves exactly one Like row for the ordered pair.
C8_SecondLikeConflicts ==
    \A h \in Handlers :
        (Done(h, "like") /\ hreq[h].arg \in Users)
        => LET a == hreq[h].user
               b == hreq[h].arg
           IN /\ hreq[h].pre =>
                    /\ hreq[h].code = 409
                    /\ ~hreq[h].wrote
                    /\ hreq[h].mid = 0
                    /\ likes[<<a, b>>] = 1
              /\ (~hreq[h].pre /\ <<a, b>> \notin blocks) =>
                    /\ hreq[h].code \in {200, 201}
                    /\ likes[<<a, b>>] = 1

C8_Witness ==
    \E h \in Handlers :
        /\ Done(h, "like")
        /\ hreq[h].pre
        /\ hreq[h].code = 409
        /\ blocks # {}

\* C9: with requests served in turn, an unmatch whose requester was a
\* participant of the match while it was active answers 200 and leaves the
\* Match and its Conversation inactive; any other unmatch answers 404 and has
\* written nothing.
C9_UnmatchNotFoundUnlessActiveParticipant ==
    \A h \in Handlers :
        Done(h, "unmatch")
        => IF hreq[h].pre
             THEN /\ hreq[h].code = 200
                  /\ ~matches[hreq[h].arg].isActive
                  /\ ConversationsOf(hreq[h].arg) # {}
                  /\ \A c \in ConversationsOf(hreq[h].arg) :
                        ~conversations[c].isActive
             ELSE hreq[h].code = 404 /\ ~hreq[h].wrote

\* a participant's second unmatch of a match, answered 404
C9_Witness ==
    \E h \in Handlers :
        /\ Done(h, "unmatch")
        /\ hreq[h].arg \in MatchIds
        /\ IsParticipant(hreq[h].user, hreq[h].arg)
        /\ ~matches[hreq[h].arg].isActive
        /\ hreq[h].code = 404

\* C10 as stated: a like between two users whose match was unmatched
\* answers 201 and has created a new active Match with its Conversation.
C10_RematchAfterUnmatch ==
    \A h \in Handlers :
        (Done(h, "like") /\ Unmatched(h))
        => /\ hreq[h].code = 201
           /\ hreq[h].mid \in MatchIds
           /\ matches[hreq[h].mid].isActive
           /\ \E c \in ConversationsOf(hreq[h].mid) : conversations[c].isActive

\* C10 as amended: a like between two users whose match was unmatched
\* answers 409 and writes nothing: no new Match, and the pair stays
\* unmatched.
C10_NoRematchAfterUnmatch ==
    \A h \in Handlers :
        (Done(h, "like") /\ Unmatched(h))
        => /\ hreq[h].code = 409
           /\ ~hreq[h].wrote
           /\ hreq[h].mid = 0
           /\ \A m \in MatchesOfPair(hreq[h].user, hreq[h].arg) : ~matches[m].isActive

C10_Witness ==
    \E h \in Handlers :
        /\ Done(h, "like")
        /\ Unmatched(h)
        /\ hreq[h].user # hreq[h].arg

\* C11: with requests served in turn, a like of an active user answers 403
\* exactly when the liker blocks the liked and the Like did not exist yet, and
\* it then writes nothing; a new like by a liker who does not block the liked
\* answers 200 or 201 whether or not the liked blocks the liker, and 201 with
\* an active Match exactly when the reverse Like exists.
C11_BlockForbidsOneDirection ==
    \A h \in Handlers :
        (Done(h, "like") /\ hreq[h].arg \in Users)
        => LET a == hreq[h].user
               b == hreq[h].arg
           IN /\ hreq[h].code = 403 <=> (IsBlocked(a, b) /\ ~hreq[h].pre)
              /\ hreq[h].code = 403 => (~hreq[h].wrote /\ likes[<<a, b>>] = 0)
              /\ (~hreq[h].pre /\ ~IsBlocked(a, b)) =>
                    /\ hreq[h].code \in {200, 201}
                    /\ likes[<<a, b>>] = 1
                    /\ hreq[h].code = 201 <=> likes[<<b, a>>] > 0
                    /\ hreq[h].code = 201 =>
                          /\ hreq[h].mid \in MatchIds
                          /\ matches[hreq[h].mid].isActive

\* a like answered with a match although the liked blocks the liker
C11_Witness ==
    \E h \in Handlers :
        /\ Done(h, "like")
        /\ hreq[h].user # hreq[h].arg
        /\ IsBlocked(hreq[h].arg, hreq[h].user)
        /\ ~IsBlocked(hreq[h].user, hreq[h].arg)
        /\ hreq[h].code = 201

\* C12: there is at most one Like row for each ordered pair (liker, liked),
\* also when like requests run concurrently.
C12_LikesUniquePerPair ==
    \A a \in Users, b \in Users : a # b => likes[<<a, b>>] <= 1

\* a like request is between its first statement and its response
LikeInProgress(h) ==
    hpc[h] \in {"like_user", "like_existing", "like_blocked", "like_create",
                "like_mutual", "like_match", "like_conversation", "like_notify"}

UnmatchInProgress(h) ==
    hpc[h] \in {"unmatch_find", "unmatch_save", "unmatch_conversation"}

\* C14: in every state in which no like and no unmatch is in progress, every
\* Match of two users has exactly one Conversation, every Conversation belongs
\* to a Match, and the Conversation of a Match of two users is active exactly
\* when the Match is.
C14_ConversationPerMatch ==
    (\A h \in Handlers : ~LikeInProgress(h) /\ ~UnmatchInProgress(h)) =>
        /\ \A c \in ConversationIds : conversations[c].matchID \in MatchIds
        /\ \A m \in MatchIds :
              matches[m].user1 # matches[m].user2 =>
                 /\ Cardinality(ConversationsOf(m)) = 1
                 /\ \A c \in ConversationsOf(m) :
                       conversations[c].isActive = matches[m].isActive

----------------------------------------------------------------------------
(* Properties of the hub. *)

\* C3: BroadcastToConversation(c, m) enqueues m only on sessions joined to c:
\* whenever a frame enters the queue of a session, the conversationID of that
\* session is, at that moment, the conversation the broadcast was called for.
C3_OnlyJoinedSessionsReceive ==
    \A s \in Clients : \A i \in 1..Len(hist[s]) : hist[s][i].joined

\* C4: the live-session set is touched by one thread of control at a time: no
\* write of Hub.clients happens while another goroutine is inside a range
\* loop over it.
C4_NoOverlappingAccess == ~raced

\* C5: the messaging core never panics: no goroutine closes a queue that is
\* already closed, or sends on one.
C5_CoreNeverPanics == ~panics

\* C6: slow-consumer eviction: no queue ever holds more than its capacity, and
\* a SendMessage whose broadcast found a session's queue full is answered 201
\* with that session removed from the live set and its queue closed.
C6_SlowConsumerEvicted ==
    /\ \A s \in Clients : Len(send[s]) <= SendCap
    /\ \A h \in Handlers :
          Done(h, "send") /\ hreq[h].full # {}
             => /\ hreq[h].code = 201
                /\ \A s \in hreq[h].full : s \notin clients /\ closed[s]

\* C7: per-destination ordering: two frames broadcast to the same conversation
\* and enqueued on a session joined to it are enqueued in the order in which
\* their BroadcastToConversation calls were issued.
C7_EnqueuedInIssueOrder ==
    \A s \in Clients : \A i \in 1..Len(hist[s]), j \in 1..Len(hist[s]) :
        ( /\ i < j
          /\ hist[s][i].joined /\ hist[s][j].joined
          /\ calls[hist[s][i].call].conv = calls[hist[s][j].call].conv )
            => hist[s][i].call < hist[s][j].call

C16_MalformedFrameTearsDown ==
    \A c \in bad : rpc[c] \in {"unregister", "done"}

\* C17: a connection whose upgrade request carried no valid bearer token is
\* never handed to Run, never in the live set and has no pumps.
C17_OnlyAuthenticatedSessions ==
    \A c \in unauth :
        /\ c \notin clients
        /\ registering # c
        /\ rpc[c] = "refused"
        /\ wpc[c] = "off"

\* one connection was refused while another is in the live set
C17_Witness ==
    /\ unauth # {}
    /\ clients # {}

\* the frame of call n has been enqueued on session x
Enqueued(x, n) == \E i \in 1..Len(hist[x]) : hist[x][i].call = n

\* the frame a typing or stop_typing message of session c for conversation k
\* is answered with
IndicatorFrame(c, k, on) ==
    [type |-> "typing", conversationID |-> k, senderID |-> ClientUser(c),
     isTyping |-> on]

\* when the broadcast of session c returns, its frame was enqueued on every
\* session the loop found joined and with room in its queue, and the loop did
\* not pass over session c itself if it was in the map and joined
TypingReachesJoined(c) ==
    LET it == iter[Pump(c)] IN
    (rpc[c] = "broadcast" /\ LoopDone(Pump(c))) =>
        /\ \A x \in it.hit \ it.full : Enqueued(x, it.call)
        /\ (c \in it.snap /\ conversationID[c] = it.conv) => c \in it.hit \cup it.full
        /\ calls[it.call].conv = it.conv
        /\ \E on \in BOOLEAN : calls[it.call].frame = IndicatorFrame(c, it.conv, on)

\* the broadcast a typing frame starts carries isTyping true, the one a
\* stop_typing frame starts the same frame with isTyping false
TypingFrameBuilt ==
    \A c \in Clients, k \in ConvIds :
        /\ ReadTyping(c, k) =>
              calls'[Len(calls')] = [conv |-> k, frame |-> IndicatorFrame(c, k, TRUE)]
        /\ ReadStopTyping(c, k) =>
              calls'[Len(calls')] = [conv |-> k, frame |-> IndicatorFrame(c, k, FALSE)]

DislikeLeavesMatchEngine ==
    \A h \in Handlers :
        hreq'[h].op = "dislike" => UNCHANGED <<likes, matches, conversations>>

\* a first like of a by b, a having liked and disliked b, answers 201 with
\* the new Match and its Conversation
LikeBackAfterDislike(h) ==
    LET b == hreq[h].user
        a == hreq[h].arg
        m == hreq[h].mid
    IN (/\ Done(h, "like")
        /\ a \in Users
        /\ a # b
        /\ ~hreq[h].pre
        /\ ~IsBlocked(b, a)
        /\ LikeExists(a, b)
        /\ DislikeExists(a, b))
       => /\ hreq[h].code = 201
          /\ m \in MatchIds
          /\ matches[m] = [user1 |-> b, user2 |-> a, isActive |-> TRUE]
          /\ \E c \in ConversationsOf(m) : conversations[c].isActive

\* C19: a dislike(A,B), issued after like(A,B) or not, changes no Like, Match
\* or Conversation row, and a later first like(B,A) still answers 201 and
\* creates the Match and its Conversation.
C19_DislikeKeepsLike ==
    /\ [][DislikeLeavesMatchEngine]_vars
    /\ [](\A h \in Handlers : LikeBackAfterDislike(h))

\* A has liked and disliked B, and the first like(B,A) has answered with a match
C19_Witness ==
    \E h \in Handlers :
        /\ Done(h, "like")
        /\ hreq[h].user # hreq[h].arg
        /\ ~hreq[h].pre
        /\ LikeExists(hreq[h].arg, hreq[h].user)
        /\ DislikeExists(hreq[h].arg, hreq[h].user)
        /\ hreq[h].code = 201
        /\ hreq[h].mid \in MatchIds

\* the response of a dislike request and what it has persisted
DislikeOutcome(h) ==
    LET a == hreq[h].user
        b == hreq[h].arg
    IN Done(h, "dislike") =>
         IF hreq[h].pre
           THEN hreq[h].code = 409 /\ ~hreq[h].wrote
           ELSE hreq[h].code = 200 /\ hreq[h].wrote /\ dislikes[<<a, b>>] = 1

\* a dislike request writes nothing but one Dislike row of its own pair
DislikeWritesOneRow ==
    \A h \in Handlers :
        hreq'[h].op = "dislike" =>
            /\ UNCHANGED <<likes, matches, conversations, notifications, blocks>>
            /\ \/ UNCHANGED dislikes
               \/ /\ ~hreq[h].pre
                  /\ hreq'[h].code = 200
                  /\ dislikes' = [dislikes EXCEPT ![<<hreq[h].user, hreq[h].arg>>] = 1]

\* C20: with requests served in turn, dislike(A,B) answers 409 and writes
\* nothing if a Dislike(A->B) exists; otherwise it answers 200 and has
\* inserted exactly one Dislike(A->B), whatever the blocks and Likes are.
C20_DislikeOnceThenConflict ==
    /\ [](\A h \in Handlers : DislikeOutcome(h))
    /\ [][DislikeWritesOneRow]_vars

\* a first dislike has succeeded although the disliker has blocked and
\* liked the other user
C20_Witness ==
    \E h \in Handlers :
        /\ Done(h, "dislike")
        /\ ~hreq[h].pre
        /\ hreq[h].code = 200
        /\ IsBlocked(hreq[h].user, hreq[h].arg)
        /\ LikeExists(hreq[h].user, hreq[h].arg)

\* a frame is put on a queue only by the loop of its own broadcast, on a
\* session that loop found joined to the conversation
EnqueuedByLoopOnJoined ==
    \A x \in Clients :
        hist'[x] # hist[x] =>
            \E t \in Threads :
                /\ iter[t].pc = "send"
                /\ iter[t].cur = x
                /\ x \in iter[t].hit
                /\ Len(hist'[x]) = Len(hist[x]) + 1
                /\ hist'[x][Len(hist'[x])].call = iter[t].call

\* a broadcast whose loop has found no session joined is on no queue
NothingQueuedForNobody ==
    \A t \in Threads :
        (iter[t].pc # "off" /\ iter[t].hit = {}) =>
            \A x \in Clients : ~Enqueued(x, iter[t].call)

\* C21: a message broadcast to a conversation while no session is joined to
\* it is enqueued nowhere, and once the broadcast has returned no session,
\* whenever it joins, has the frame enqueued.
C21_NoStoreAndForward ==
    /\ [][EnqueuedByLoopOnJoined]_vars
    /\ []NothingQueuedForNobody

\* a broadcast has returned with nothing enqueued and nobody evicted, and a
\* session in the live set is now joined to its conversation
C21_Witness ==
    \E n \in 1..Len(calls), x \in clients :
        /\ \A t \in Threads : iter[t].call # n
        /\ conversationID[x] = calls[n].conv
        /\ \A y \in Clients : ~Enqueued(y, n) /\ ~closed[y]
        /\ \A h \in Handlers : hpc[h] = "idle"

\* the Match that owns conversation k is active
MatchOfConversationActive(k) ==
    /\ k \in ConversationIds
    /\ conversations[k].matchID \in MatchIds
    /\ matches[conversations[k].matchID].isActive

\* C22: a Message row is created only for a conversation that is active and
\* whose Match is active at that moment, also when Unmatch requests run
\* concurrently with SendMessage.
C22_NoMessageForInactiveMatch ==
    [][\A h \in Handlers :
          (hpc[h] = "send_create" /\ hpc'[h] = "send_fanout") =>
              /\ conversations[hreq[h].arg].isActive
              /\ MatchOfConversationActive(hreq[h].arg)]_vars

\* C23: a chat frame is enqueued only on sessions whose user is user1 or
\* user2 of the Match that owns the frame's conversation.
C23_ChatFramesOnlyToParticipants ==
    \A x \in Clients : \A i \in 1..Len(hist[x]) :
        LET call == calls[hist[x][i].call] IN
        call.frame.type = "message" =>
            /\ call.conv \in ConversationIds
            /\ IsParticipant(ClientUser(x), conversations[call.conv].matchID)

\* C24: no Match row has the same user in both columns, and no like of
\* oneself is answered 201.
C24_NoSelfMatch ==
    /\ \A m \in MatchIds : matches[m].user1 # matches[m].user2
    /\ \A h \in Handlers :
          Done(h, "like") /\ hreq[h].user = hreq[h].arg => hreq[h].code # 201

\* the place of the frame of call n in what was enqueued on session x
Place(x, n) == CHOOSE i \in 1..Len(hist[x]) : hist[x][i].call = n

\* C25: two sessions on which the chat frames of the same two SendMessage
\* requests for one conversation were enqueued hold them in the same order.
C25_RecipientsAgreeOnOrder ==
    \A x \in Clients, y \in Clients :
        \A a \in 1..Len(calls), b \in 1..Len(calls) :
            ( /\ a # b
              /\ calls[a].frame.type = "message" /\ calls[b].frame.type = "message"
              /\ calls[a].conv = calls[b].conv
              /\ Enqueued(x, a) /\ Enqueued(x, b)
              /\ Enqueued(y, a) /\ Enqueued(y, b) )
            => (Place(x, a) < Place(x, b) <=> Place(y, a) < Place(y, b))

\* the broadcasts of chat frames, and the notifications of messages
MessageCalls == {n \in 1..Len(calls) : calls[n].frame.type = "message"}
MessageNotifications ==
    {n \in 1..Len(notifications) : notifications[n].type = "message"}

\* C26: every chat frame that was broadcast, and so every one enqueued on a
\* session, is the frame of a Message row persisted before; a SendMessage
\* refused for lack of access or whose Create failed has written nothing,
\* broadcast nothing and created no notification.
C26_PersistBeforeFanout ==
    /\ \A n \in MessageCalls :
          \E m \in 1..Len(messages) :
              messages[m] = NewMessage(calls[n].conv, calls[n].frame.senderID)
    /\ Cardinality(MessageCalls) <= Len(messages)
    /\ Cardinality(MessageNotifications) <= Len(messages)
    /\ \A x \in Clients : \A i \in 1..Len(hist[x]) : hist[x][i].call \in MessageCalls
    /\ \A h \in Handlers :
          Done(h, "send") /\ hreq[h].mid = 0
             => hreq[h].code \in {403, 500} /\ ~hreq[h].wrote

\* a SendMessage to a conversation a registered session has joined was
\* answered 500 because its Create failed, and nothing was broadcast
C26_Witness ==
    \E h \in Handlers, x \in clients :
        /\ Done(h, "send")
        /\ hreq[h].code = 500
        /\ hreq[h].mid = 0
        /\ conversationID[x] = hreq[h].arg
        /\ calls = << >>
        /\ hist[x] = << >>

\* a like answered 500: its Like row is there; if the Match could not be
\* created the pair has none, and if the Conversation could not be created
\* the Match is there without one
LikeFailureKeepsRows(h) ==
    LET a == hreq[h].user
        b == hreq[h].arg
        m == hreq[h].mid
    IN (Done(h, "like") /\ hreq[h].code = 500) =>
          /\ hreq[h].wrote
          /\ likes[<<a, b>>] = 1
          /\ IF m = 0
               THEN MatchesOfPair(a, b) = {}
               ELSE /\ MatchesOfPair(a, b) = {m}
                    /\ matches[m].isActive
                    /\ ConversationsOf(m) = {}

\* a like whose Like row exists already is answered 409
RetryConflicts(h) ==
    (Done(h, "like") /\ hreq[h].pre) =>
        hreq[h].code = 409 /\ ~hreq[h].wrote /\ hreq[h].mid = 0

\* and no step of it writes to the store
RetryWritesNothing ==
    \A h \in Handlers :
        (hreq'[h].op = "like" /\ hreq'[h].pre) => UNCHANGED dbVars

\* C27: with requests served in turn, a like whose Match or Conversation
\* cannot be created is answered 500 and leaves what it had written (the
\* Like; the Match without Conversation); the same like again is answered
\* 409 and writes nothing.
C27_LikeFailureNotRolledBack ==
    /\ [](\A h \in Handlers : LikeFailureKeepsRows(h) /\ RetryConflicts(h))
    /\ [][RetryWritesNothing]_vars

\* the retry of a like whose Conversation could not be created has been
\* answered 409, and the Match is still without a Conversation
C27_Witness ==
    \E h \in Handlers, m \in MatchIds :
        /\ Done(h, "like")
        /\ hreq[h].pre
        /\ hreq[h].code = 409
        /\ hreq[h].user # hreq[h].arg
        /\ matches[m] = NewMatch(hreq[h].user, hreq[h].arg)
        /\ ConversationsOf(m) = {}

\* a pump of session c has terminated
PumpEnded(c) == wpc[c] = "done" \/ rpc[c] \in {"unregister", "done"}

\* session c is out of the live set and its readPump has returned
TornDown(c) == c \notin clients /\ rpc[c] = "done"

\* C28: under fair scheduling, a session whose queue is closed has its
\* writePump terminate, and a session one of whose pumps has terminated is
\* in the end out of the live set with its readPump returned.
C28_TeardownCompletes ==
    \A c \in Solo :
        /\ closed[c] ~> wpc[c] = "done"
        /\ PumpEnded(c) ~> TornDown(c)

\* the same, as long as the process has not died of a panic
TeardownCompletesUnlessCrashed ==
    \A c \in Solo :
        /\ closed[c] ~> (wpc[c] = "done" \/ crashed)
        /\ PumpEnded(c) ~> (TornDown(c) \/ crashed)

\* C29: when Run serves the unregister event of a session that is in the
\* live set, the session leaves the set and its queue, open until then, is
\* closed; when the session is not in the set, the set and the queues stay
\* as they are.
C29_UnregisterIdempotent ==
    [][\A c \in Clients :
          RunUnregister(c) =>
              IF c \in clients
                THEN /\ ~closed[c]
                     /\ closed' = [closed EXCEPT ![c] = TRUE]
                     /\ clients' = clients \ {c}
                ELSE UNCHANGED <<clients, closed, send>>]_vars

\* C30: a session that has sent no join_conversation frame, so that its
\* conversationID is still 0, has had no frame enqueued.
C30_UnjoinedSessionReceivesNothing ==
    \A x \in Clients : conversationID[x] = NoConv => hist[x] = << >>

====
